---- MODULE Spec2Model ----
(***************************************************************************)
(* Model of the chatbot service wrapper:                                   *)
(*   src/services/llm_service.py  LLMService.__init__ / send_message       *)
(*   src/utils/helpers.py         sanitize_input                           *)
(*                                                                         *)
(* Strings that the code indexes, slices or measures (the message, the     *)
(* text given to sanitize_input) are sequences of one-character strings.   *)
(* Strings that the code only builds and hands back (error texts, the      *)
(* completion content) are TLA+ strings.  An Optional value is None (the   *)
(* empty tuple) or Some(v) (the one-element tuple <<v>>).                  *)
(***************************************************************************)
EXTENDS Integers, Sequences, FiniteSets, TLC

VARIABLES
    Config,       \* config.Config: the process-wide settings (class attributes)
    init_state,   \* LLMService(): "new" (not yet called), "ready", "raised"
    init_error,   \* the exception LLMService() raised, or None
    client,       \* self.client: None until __init__ binds it
    clock,        \* time.time(), an integer clock
    active,       \* the callers (threads) that call send_message in this run
    pc,           \* per caller: position inside send_message
    message,      \* per caller: the message argument
    model,        \* per caller: the model argument
    attempt,      \* per caller: the loop variable `attempt`
    start_time,   \* per caller: the local start_time
    calls,        \* per caller: number of client.chat.completions.create calls
    sleeps,       \* per caller: the durations passed to time.sleep, in order
    wake,         \* per caller: the time at which the running sleep is over
    replies,      \* per caller: what the remote API answered, attempt by attempt
    result,       \* per caller: None, or Some(dict returned by send_message)
    text,         \* sanitize_input: its argument
    sanitized,    \* sanitize_input: its return value
    san_pc        \* sanitize_input: "input" before the call, "done" after

vars == <<Config, init_state, init_error, client, clock, active, pc, message,
          model, attempt, start_time, calls, sleeps, wake, replies, result,
          text, sanitized, san_pc>>

dispatchVars == <<Config, init_state, init_error, client, clock, active, pc,
                  message, model, attempt, start_time, calls, sleeps, wake,
                  replies, result>>

sanitizeVars == <<text, sanitized, san_pc>>

(***************************************************************************)
(* Bounds of the model.                                                    *)
(***************************************************************************)
MaxRetries == 3       \* Config.MAX_RETRIES ranges over 0..MaxRetries
MaxLimit == 2         \* Config.MAX_MESSAGE_LENGTH ranges over 0..MaxLimit
MaxMsgLen == 3        \* messages have at most this many characters

Callers == {1, 2}
Models == {"gpt-3.5-turbo", "gpt-4"}
Latencies == {0, 1}   \* seconds one completion request may take
MsgChars == {"a", " "}

(***************************************************************************)
(* Optional values.                                                        *)
(***************************************************************************)
None == <<>>
Some(v) == <<v>>

Max(a, b) == IF a >= b THEN a ELSE b

(***************************************************************************)
(* str.strip(): whitespace is removed from both ends.  The counts are      *)
(* computed by halving so that long texts need no deep recursion.          *)
(*                                                                         *)
(* Whitespace holds the 29 characters ch with ch.isspace(), which are the  *)
(* ones str.strip() removes.  In the order written below they are the      *)
(* code points U+0009..U+000D, U+001C..U+001F, U+0020; then U+0085,        *)
(* U+00A0, U+1680; then U+2000..U+200A, U+2028, U+2029, U+202F, U+205F,    *)
(* U+3000.  A character is a one-character string; the characters from     *)
(* U+2000 on cannot be written in a string literal and are written by the  *)
(* name of their code point.                                               *)
(***************************************************************************)
Whitespace ==
    {"\t", "\n", "", "\f", "\r",
     "", "", "", "", " ",
     "", " ", " ",
     "U+2000", "U+2001", "U+2002", "U+2003", "U+2004", "U+2005",
     "U+2006", "U+2007", "U+2008", "U+2009", "U+200A",
     "U+2028", "U+2029", "U+202F", "U+205F", "U+3000"}

\* The vertical tabulation U+000B, a whitespace character other than the blank.
VT == ""

RECURSIVE LeadingWs(_)
LeadingWs(s) ==
    IF Len(s) = 0 THEN 0
    ELSE IF Len(s) = 1 THEN (IF s[1] \in Whitespace THEN 1 ELSE 0)
    ELSE LET h == Len(s) \div 2
             l == LeadingWs(SubSeq(s, 1, h))
         IN  IF l < h THEN l ELSE h + LeadingWs(SubSeq(s, h + 1, Len(s)))

RECURSIVE TrailingWs(_)
TrailingWs(s) ==
    IF Len(s) = 0 THEN 0
    ELSE IF Len(s) = 1 THEN (IF s[1] \in Whitespace THEN 1 ELSE 0)
    ELSE LET h == Len(s) \div 2
             t == TrailingWs(SubSeq(s, h + 1, Len(s)))
         IN  IF t < Len(s) - h THEN t ELSE t + TrailingWs(SubSeq(s, 1, h))

Strip(s) ==
    LET l == LeadingWs(s)
    IN  IF l = Len(s) THEN <<>>
        ELSE SubSeq(s, l + 1, Len(s) - TrailingWs(s))

(***************************************************************************)
(* config.Config.validate_config(): the credential is present and every    *)
(* numeric setting is positive.                                            *)
(***************************************************************************)
validate_config ==
    /\ Config.OPENAI_API_KEY # None
    /\ Config.OPENAI_API_KEY # Some("")
    /\ Config.MAX_MESSAGE_LENGTH > 0
    /\ Config.MAX_RETRIES > 0
    /\ Config.API_TIMEOUT > 0

Configs ==
    [OPENAI_API_KEY : {None, Some(""), Some("sk-test")},
     MAX_MESSAGE_LENGTH : 0..MaxLimit,
     MAX_RETRIES : 0..MaxRetries,
     API_TIMEOUT : {30}]

\* Mutant of Construct: the client is bound before the configuration is checked.
InitBindsClientFirst ==
    /\ init_state = "new"
    /\ client' = Some(Config.OPENAI_API_KEY)
    /\ IF ~validate_config
       THEN /\ init_state' = "raised"
            /\ init_error' = Some("ValueError")
       ELSE /\ init_state' = "ready"
            /\ init_error' = None
    /\ UNCHANGED <<Config, clock, active, pc, message, model, attempt,
                   start_time, calls, sleeps, wake, replies, result>>
    /\ UNCHANGED sanitizeVars

(***************************************************************************)
(* LLMService.__init__ (lines 10-17).                                      *)
(***************************************************************************)
Construct ==
    /\ init_state = "new"
    /\ IF ~validate_config
       THEN /\ init_state' = "raised"
            /\ init_error' = Some("ValueError")
            /\ client' = client
       ELSE /\ init_state' = "ready"
            /\ init_error' = None
            /\ client' = Some(Config.OPENAI_API_KEY)
    /\ UNCHANGED <<Config, clock, active, pc, message, model, attempt,
                   start_time, calls, sleeps, wake, replies, result>>
    /\ UNCHANGED sanitizeVars

(***************************************************************************)
(* The remote completion API as send_message sees it: a call of            *)
(* client.chat.completions.create either returns a response object or      *)
(* raises.  A response has a list of choices, each with an optional        *)
(* message (whose content is optional), and optional usage metadata.       *)
(***************************************************************************)
Choice(msg) == [message |-> msg]
ChatMessage(content) == [content |-> content]

Responses ==
    {[choices |-> <<Choice(Some(ChatMessage(Some("Hello"))))>>,
      usage |-> Some([total_tokens |-> 12])],
     [choices |-> <<Choice(Some(ChatMessage(Some("Hi there"))))>>,
      usage |-> None],
     [choices |-> <<Choice(Some(ChatMessage(None)))>>,
      usage |-> Some([total_tokens |-> 5])],
     [choices |-> <<Choice(Some(ChatMessage(Some(""))))>>,
      usage |-> None],
     [choices |-> <<Choice(None)>>, usage |-> None],
     [choices |-> <<>>, usage |-> None]}

(***************************************************************************)
(* The exception classes create() can raise, each under the name the       *)
(* source would write for it and with its base classes: the built-in       *)
(* exceptions of Python with asyncio.CancelledError (BuiltinBases), and    *)
(* the classes of the openai package in the release line that provides     *)
(* openai.OpenAI, used at line 16 (OpenaiBases), where RateLimitError and  *)
(* AuthenticationError derive from APIStatusError, which derives from      *)
(* APIError.  Besides Exception itself, five of these classes derive from  *)
(* BaseException and not from Exception, so that `except Exception` does   *)
(* not catch them: BaseExceptionGroup, asyncio.CancelledError,             *)
(* GeneratorExit, KeyboardInterrupt and SystemExit.  The relation is       *)
(* defined for the classes that have a row and for no other class.         *)
(***************************************************************************)
Under(bases, names) == [c \in names |-> bases]

BuiltinBases ==
    Under({"object"},
          {"BaseException"})
    @@ Under({"BaseException"},
          {"BaseExceptionGroup", "asyncio.CancelledError", "Exception",
           "GeneratorExit", "KeyboardInterrupt", "SystemExit"})
    @@ Under({"BaseExceptionGroup", "Exception"},
          {"ExceptionGroup"})
    @@ Under({"Exception"},
          {"ArithmeticError", "AssertionError", "AttributeError",
           "BufferError", "EOFError", "ImportError", "LookupError",
           "MemoryError", "NameError", "OSError", "ReferenceError",
           "RuntimeError", "StopAsyncIteration", "StopIteration",
           "SyntaxError", "SystemError", "TypeError", "ValueError", "Warning"})
    @@ Under({"ArithmeticError"},
          {"FloatingPointError", "OverflowError", "ZeroDivisionError"})
    @@ Under({"ImportError"},
          {"ModuleNotFoundError"})
    @@ Under({"LookupError"},
          {"IndexError", "KeyError"})
    @@ Under({"NameError"},
          {"UnboundLocalError"})
    @@ Under({"OSError"},
          {"BlockingIOError", "ChildProcessError", "ConnectionError",
           "FileExistsError", "FileNotFoundError", "InterruptedError",
           "IsADirectoryError", "NotADirectoryError", "PermissionError",
           "ProcessLookupError", "TimeoutError"})
    @@ Under({"ConnectionError"},
          {"BrokenPipeError", "ConnectionAbortedError",
           "ConnectionRefusedError", "ConnectionResetError"})
    @@ Under({"RuntimeError"},
          {"NotImplementedError", "RecursionError"})
    @@ Under({"SyntaxError"},
          {"IndentationError"})
    @@ Under({"IndentationError"},
          {"TabError"})
    @@ Under({"ValueError"},
          {"UnicodeError"})
    @@ Under({"UnicodeError"},
          {"UnicodeDecodeError", "UnicodeEncodeError",
           "UnicodeTranslateError"})
    @@ Under({"Warning"},
          {"BytesWarning", "DeprecationWarning", "EncodingWarning",
           "FutureWarning", "ImportWarning", "PendingDeprecationWarning",
           "ResourceWarning", "RuntimeWarning", "SyntaxWarning",
           "UnicodeWarning", "UserWarning"})

ApiStatusErrors ==
    {"openai.RateLimitError", "openai.AuthenticationError",
     "openai.BadRequestError", "openai.PermissionDeniedError",
     "openai.NotFoundError", "openai.ConflictError",
     "openai.UnprocessableEntityError", "openai.InternalServerError"}

OpenaiBases ==
    Under({"Exception"}, {"openai.OpenAIError"})
    @@ Under({"openai.OpenAIError"},
             {"openai.APIError", "openai.LengthFinishReasonError",
              "openai.ContentFilterFinishReasonError"})
    @@ Under({"openai.APIError"},
             {"openai.APIStatusError", "openai.APIConnectionError",
              "openai.APIResponseValidationError"})
    @@ Under({"openai.APIConnectionError"}, {"openai.APITimeoutError"})
    @@ Under({"openai.APIStatusError"}, ApiStatusErrors)

\* cls.__bases__
Bases == Under({}, {"object"}) @@ BuiltinBases @@ OpenaiBases

\* issubclass(cls, base)
RECURSIVE IsSubclass(_, _)
IsSubclass(cls, base) ==
    \/ cls = base
    \/ \E b \in Bases[cls] : IsSubclass(b, base)

\* What create() raises: one exception for each except clause of send_message
\* (lines 78, 89, 100, 108) and one that no clause names, raised when the
\* process is interrupted while the request is waiting.
Exceptions ==
    {[cls |-> "openai.APIConnectionError", text |-> "Connection error."],
     [cls |-> "openai.RateLimitError", text |-> "Error code: 429"],
     [cls |-> "openai.AuthenticationError", text |-> "Error code: 401"],
     [cls |-> "ValueError", text |-> "bad value"],
     [cls |-> "KeyboardInterrupt", text |-> ""]}

ApiOutcomes ==
    {[raised |-> FALSE, value |-> r] : r \in Responses}
    \cup {[raised |-> TRUE, value |-> e] : e \in Exceptions}

(***************************************************************************)
(* The dicts send_message returns.                                         *)
(***************************************************************************)
Failure(error, rt) ==
    [success |-> FALSE, response |-> None, error |-> Some(error),
     response_time |-> rt]

Success(content, rt, mdl, tokens) ==
    [success |-> TRUE, response |-> content, error |-> None,
     response_time |-> rt, model_used |-> mdl, tokens_used |-> tokens]

\* Messages over MsgChars, and messages with a whitespace character other than
\* the blank: alone, around a letter, and before a blank.
WhitespaceMessages == {<<VT>>, <<VT, "a", VT>>, <<VT, " ">>}

Messages ==
    UNION {[1..n -> MsgChars] : n \in 0..MaxMsgLen} \cup WhitespaceMessages

\* Mutants of CheckMessage: the whitespace test left out; >= for >.
CheckMessageNoStrip(m) ==
    IF Len(m) = 0
    THEN Some(Failure("Empty message provided", 0))
    ELSE IF Len(m) > Config.MAX_MESSAGE_LENGTH
    THEN Some(Failure("Message too long. Maximum "
                      \o ToString(Config.MAX_MESSAGE_LENGTH)
                      \o " characters allowed.", 0))
    ELSE None

CheckMessageOffByOne(m) ==
    IF Len(m) = 0 \/ Len(Strip(m)) = 0
    THEN Some(Failure("Empty message provided", 0))
    ELSE IF Len(m) >= Config.MAX_MESSAGE_LENGTH
    THEN Some(Failure("Message too long. Maximum "
                      \o ToString(Config.MAX_MESSAGE_LENGTH)
                      \o " characters allowed.", 0))
    ELSE None

(***************************************************************************)
(* send_message, lines 30-44: the checks made before any network           *)
(* activity.  Some(dict) when the message is rejected, None when it        *)
(* passes.                                                                 *)
(***************************************************************************)
CheckMessage(m) ==
    IF Len(m) = 0 \/ Len(Strip(m)) = 0
    THEN Some(Failure("Empty message provided", 0))
    ELSE IF Len(m) > Config.MAX_MESSAGE_LENGTH
    THEN Some(Failure("Message too long. Maximum "
                      \o ToString(Config.MAX_MESSAGE_LENGTH)
                      \o " characters allowed.", 0))
    ELSE None

\* Mutant of HandleResponse: the role of the message is returned, not its
\* content.
HandleResponseMessageRole(resp, mdl, rt) ==
    IF Len(resp.choices) > 0 /\ resp.choices[1].message # None
    THEN Success(Some("assistant"), rt, mdl,
                 IF resp.usage # None
                 THEN Some(resp.usage[1].total_tokens) ELSE None)
    ELSE Failure("Empty response from API", rt)

\* Mutant of HandleResponse: only `response.choices` is tested, and a first
\* choice without a message is reported as a success without content.
HandleResponseChoicesOnly(resp, mdl, rt) ==
    IF Len(resp.choices) > 0
    THEN Success(IF resp.choices[1].message # None
                 THEN resp.choices[1].message[1].content ELSE None,
                 rt, mdl,
                 IF resp.usage # None
                 THEN Some(resp.usage[1].total_tokens) ELSE None)
    ELSE Failure("Empty response from API", rt)

\* Mutant of HandleResponse: model_used reports the default model.
HandleResponseDefaultModel(resp, mdl, rt) ==
    IF Len(resp.choices) > 0 /\ resp.choices[1].message # None
    THEN Success(resp.choices[1].message[1].content, rt, "gpt-3.5-turbo",
                 IF resp.usage # None
                 THEN Some(resp.usage[1].total_tokens) ELSE None)
    ELSE Failure("Empty response from API", rt)

(***************************************************************************)
(* send_message, lines 59-76: the dict returned when the request returned  *)
(* a response; rt is time.time() - start_time.                             *)
(***************************************************************************)
HandleResponse(resp, mdl, rt) ==
    IF Len(resp.choices) > 0 /\ resp.choices[1].message # None
    THEN Success(resp.choices[1].message[1].content, rt, mdl,
                 IF resp.usage # None
                 THEN Some(resp.usage[1].total_tokens) ELSE None)
    ELSE Failure("Empty response from API", rt)

(***************************************************************************)
(* send_message, lines 78-117: the except clauses in the order they are    *)
(* written.  Python runs the first clause whose class the exception is an  *)
(* instance of; 0 when no clause matches and the exception propagates.     *)
(***************************************************************************)
ExceptClauses == <<"openai.APIError", "openai.RateLimitError", "openai.AuthenticationError", "Exception">>

\* Mutant of MatchingClause: the final `except Exception` clause is missing.
MatchingClauseNoCatchAll(e) ==
    LET hits == {i \in 1..(Len(ExceptClauses) - 1) :
                    IsSubclass(e.cls, ExceptClauses[i])}
    IN  IF hits = {} THEN 0
        ELSE CHOOSE i \in hits : \A j \in hits : i <= j

MatchingClause(e) ==
    LET hits == {i \in 1..Len(ExceptClauses) : IsSubclass(e.cls, ExceptClauses[i])}
    IN  IF hits = {} THEN 0
        ELSE CHOOSE i \in hits : \A j \in hits : i <= j

(***************************************************************************)
(* What the matching clause does on attempt att: return a dict             *)
(* (returns = Some(dict)), or sleep and go on to the next attempt          *)
(* (returns = None, sleep = seconds).                                      *)
(***************************************************************************)
Return(d) == [caught |-> TRUE, returns |-> Some(d), sleep |-> 0]
Backoff(secs) == [caught |-> TRUE, returns |-> None, sleep |-> secs]
Propagate == [caught |-> FALSE, returns |-> None, sleep |-> 0]

\* Mutant of HandleException: the generic clause backs off 2 seconds.
HandleExceptionSlowBackoff(e, att, rt) ==
    LET clause == MatchingClause(e)
        last == (att = Config.MAX_RETRIES - 1)
    IN  CASE clause = 1 ->
               IF last THEN Return(Failure("API Error: " \o e.text, rt))
               ELSE Backoff(2)
          [] clause = 2 ->
               IF last
               THEN Return(Failure("Rate limit exceeded. Please try again later.", rt))
               ELSE Backoff(2)
          [] clause = 3 ->
               Return(Failure("Invalid API key. Please check your configuration.", rt))
          [] clause = 4 ->
               IF last THEN Return(Failure("Unexpected error: " \o e.text, rt))
               ELSE Backoff(1)
          [] OTHER -> Propagate

\* Mutant of HandleException: the catch-all clause returns on every attempt.
HandleExceptionUnexpectedNoRetry(e, att, rt) ==
    LET clause == MatchingClause(e)
        last == (att = Config.MAX_RETRIES - 1)
    IN  CASE clause = 1 ->
               IF last THEN Return(Failure("API Error: " \o e.text, rt))
               ELSE Backoff(1)
          [] clause = 2 ->
               IF last
               THEN Return(Failure("Rate limit exceeded. Please try again later.", rt))
               ELSE Backoff(2)
          [] clause = 3 ->
               Return(Failure("Invalid API key. Please check your configuration.", rt))
          [] clause = 4 ->
               Return(Failure("Unexpected error: " \o e.text, rt))
          [] OTHER -> Propagate

\* Mutant of HandleException: the last attempt is taken to be MAX_RETRIES,
\* so the real last attempt backs off and the loop runs out.
HandleExceptionLastOffByOne(e, att, rt) ==
    LET clause == MatchingClause(e)
        last == (att = Config.MAX_RETRIES)
    IN  CASE clause = 1 ->
               IF last THEN Return(Failure("API Error: " \o e.text, rt))
               ELSE Backoff(1)
          [] clause = 2 ->
               IF last
               THEN Return(Failure("Rate limit exceeded. Please try again later.", rt))
               ELSE Backoff(2)
          [] clause = 3 ->
               Return(Failure("Invalid API key. Please check your configuration.", rt))
          [] clause = 4 ->
               IF last THEN Return(Failure("Unexpected error: " \o e.text, rt))
               ELSE Backoff(1)
          [] OTHER -> Propagate

HandleException(e, att, rt) ==
    LET clause == MatchingClause(e)
        last == (att = Config.MAX_RETRIES - 1)
    IN  CASE clause = 1 ->
               IF last THEN Return(Failure("API Error: " \o e.text, rt))
               ELSE Backoff(1)
          [] clause = 2 ->
               IF last
               THEN Return(Failure("Rate limit exceeded. Please try again later.", rt))
               ELSE Backoff(2)
          [] clause = 3 ->
               Return(Failure("Invalid API key. Please check your configuration.", rt))
          [] clause = 4 ->
               IF last THEN Return(Failure("Unexpected error: " \o e.text, rt))
               ELSE Backoff(1)
          [] OTHER -> Propagate

(***************************************************************************)
(* send_message, lines 19-46: the call, the checks and the start time.     *)
(***************************************************************************)
Call(c, m, mdl) ==
    /\ init_state = "ready"
    /\ pc[c] = "idle"
    /\ message' = [message EXCEPT ![c] = m]
    /\ model' = [model EXCEPT ![c] = mdl]
    /\ IF CheckMessage(m) # None
       THEN /\ result' = [result EXCEPT ![c] = CheckMessage(m)]
            /\ pc' = [pc EXCEPT ![c] = "done"]
            /\ UNCHANGED start_time
       ELSE /\ start_time' = [start_time EXCEPT ![c] = clock]
            /\ pc' = [pc EXCEPT ![c] = "loop"]
            /\ UNCHANGED result
    /\ UNCHANGED <<Config, init_state, init_error, client, clock, active,
                   attempt, calls, sleeps, wake, replies>>
    /\ UNCHANGED sanitizeVars

\* Mutant of Attempt: the loop makes at least one attempt.
AttemptAtLeastOnce(c) ==
    /\ pc[c] = "loop"
    /\ IF attempt[c] < Max(Config.MAX_RETRIES, 1)
       THEN /\ calls' = [calls EXCEPT ![c] = @ + 1]
            /\ pc' = [pc EXCEPT ![c] = "waiting"]
       ELSE /\ pc' = [pc EXCEPT ![c] = "done"]
            /\ UNCHANGED calls
    /\ UNCHANGED <<Config, init_state, init_error, client, clock, active,
                   message, model, attempt, start_time, sleeps, wake,
                   replies, result>>
    /\ UNCHANGED sanitizeVars

(***************************************************************************)
(* send_message, lines 48-57: the head of the for loop and the request.    *)
(* When range(MAX_RETRIES) is exhausted the function ends without a        *)
(* return statement.                                                       *)
(***************************************************************************)
Attempt(c) ==
    /\ pc[c] = "loop"
    /\ IF attempt[c] < Config.MAX_RETRIES
       THEN /\ calls' = [calls EXCEPT ![c] = @ + 1]
            /\ pc' = [pc EXCEPT ![c] = "waiting"]
       ELSE /\ pc' = [pc EXCEPT ![c] = "done"]
            /\ UNCHANGED calls
    /\ UNCHANGED <<Config, init_state, init_error, client, clock, active,
                   message, model, attempt, start_time, sleeps, wake,
                   replies, result>>
    /\ UNCHANGED sanitizeVars

(***************************************************************************)
(* send_message, lines 50-117: the request returns or raises after lat     *)
(* seconds; the function returns a dict, starts a backoff sleep, or lets   *)
(* the exception through.                                                  *)
(***************************************************************************)
Reply(c, o, lat) ==
    /\ pc[c] = "waiting"
    /\ clock' = clock + lat
    /\ replies' = [replies EXCEPT ![c] = Append(@, o)]
    /\ LET rt == clock' - start_time[c]
       IN  IF ~o.raised
           THEN /\ result' = [result EXCEPT ![c] = Some(HandleResponse(o.value, model[c], rt))]
                /\ pc' = [pc EXCEPT ![c] = "done"]
                /\ UNCHANGED <<sleeps, wake>>
           ELSE LET h == HandleException(o.value, attempt[c], rt)
                IN  IF ~h.caught
                    THEN /\ pc' = [pc EXCEPT ![c] = "raised"]
                         /\ UNCHANGED <<result, sleeps, wake>>
                    ELSE IF h.returns # None
                    THEN /\ result' = [result EXCEPT ![c] = h.returns]
                         /\ pc' = [pc EXCEPT ![c] = "done"]
                         /\ UNCHANGED <<sleeps, wake>>
                    ELSE /\ sleeps' = [sleeps EXCEPT ![c] = Append(@, h.sleep)]
                         /\ wake' = [wake EXCEPT ![c] = clock' + h.sleep]
                         /\ pc' = [pc EXCEPT ![c] = "sleeping"]
                         /\ UNCHANGED result
    /\ UNCHANGED <<Config, init_state, init_error, client, active, message,
                   model, attempt, start_time, calls>>
    /\ UNCHANGED sanitizeVars

\* Mutant of Wake: start_time is taken again at every attempt.
WakeResetsStart(c) ==
    /\ pc[c] = "sleeping"
    /\ clock' = Max(clock, wake[c])
    /\ attempt' = [attempt EXCEPT ![c] = @ + 1]
    /\ start_time' = [start_time EXCEPT ![c] = clock']
    /\ pc' = [pc EXCEPT ![c] = "loop"]
    /\ UNCHANGED <<Config, init_state, init_error, client, active, message,
                   model, calls, sleeps, wake, replies, result>>
    /\ UNCHANGED sanitizeVars

\* Mutant of Wake: the attempt counter is kept on the instance and so is
\* shared by the callers.
WakeSharedAttempt(c) ==
    /\ pc[c] = "sleeping"
    /\ clock' = Max(clock, wake[c])
    /\ attempt' = [d \in Callers |-> attempt[d] + 1]
    /\ pc' = [pc EXCEPT ![c] = "loop"]
    /\ UNCHANGED <<Config, init_state, init_error, client, active, message,
                   model, start_time, calls, sleeps, wake, replies, result>>
    /\ UNCHANGED sanitizeVars

(***************************************************************************)
(* time.sleep returns (lines 87, 98, 117) and the loop takes the next      *)
(* value of range(MAX_RETRIES).                                            *)
(***************************************************************************)
Wake(c) ==
    /\ pc[c] = "sleeping"
    /\ clock' = Max(clock, wake[c])
    /\ attempt' = [attempt EXCEPT ![c] = @ + 1]
    /\ pc' = [pc EXCEPT ![c] = "loop"]
    /\ UNCHANGED <<Config, init_state, init_error, client, active, message,
                   model, start_time, calls, sleeps, wake, replies, result>>
    /\ UNCHANGED sanitizeVars

(***************************************************************************)
(* The service: the configuration as loaded (valid or not), one            *)
(* LLMService(), and one send_message call by each active caller.  A call  *)
(* needs the instance, so send_message runs only under a configuration     *)
(* that validate_config accepted.                                          *)
(***************************************************************************)
InitDispatch(callers) ==
    /\ Config \in Configs
    /\ init_state = "new"
    /\ init_error = None
    /\ client = None
    /\ clock = 1
    /\ active = callers
    /\ pc = [c \in Callers |-> "idle"]
    /\ message = [c \in Callers |-> <<>>]
    /\ model = [c \in Callers |-> "gpt-3.5-turbo"]
    /\ attempt = [c \in Callers |-> 0]
    /\ start_time = [c \in Callers |-> 0]
    /\ calls = [c \in Callers |-> 0]
    /\ sleeps = [c \in Callers |-> <<>>]
    /\ wake = [c \in Callers |-> 0]
    /\ replies = [c \in Callers |-> <<>>]
    /\ result = [c \in Callers |-> None]

SanitizeIdle ==
    /\ text = <<>>
    /\ sanitized = <<>>
    /\ san_pc = "off"

Init ==
    /\ InitDispatch({1})
    /\ SanitizeIdle

Next ==
    \/ Construct
    \/ \E c \in active : \E m \in Messages : \E mdl \in Models : Call(c, m, mdl)
    \/ \E c \in active : Attempt(c)
    \/ \E c \in active : \E o \in ApiOutcomes : \E lat \in Latencies : Reply(c, o, lat)
    \/ \E c \in active : Wake(c)

Spec == Init /\ [][Next]_vars

(***************************************************************************)
(* sanitize_input (src/utils/helpers.py, lines 4-27).                      *)
(***************************************************************************)
MAX_TEXT_LENGTH == 4000

\* html.escape(text): & < > " ' become entities
EscapeChar(ch) ==
    CASE ch = "&" -> <<"&", "a", "m", "p", ";">>
      [] ch = "<" -> <<"&", "l", "t", ";">>
      [] ch = ">" -> <<"&", "g", "t", ";">>
      [] ch = "\"" -> <<"&", "q", "u", "o", "t", ";">>
      [] ch = "'" -> <<"&", "#", "x", "2", "7", ";">>
      [] OTHER -> <<ch>>

RECURSIVE Escape(_)
Escape(s) ==
    IF Len(s) = 0 THEN <<>>
    ELSE IF Len(s) = 1 THEN EscapeChar(s[1])
    ELSE LET h == Len(s) \div 2
         IN  Escape(SubSeq(s, 1, h)) \o Escape(SubSeq(s, h + 1, Len(s)))

\* re.sub(r'[<>"\']', '', text)
Dangerous == {"<", ">", "\"", "'"}

RECURSIVE RemoveDangerous(_)
RemoveDangerous(s) ==
    IF Len(s) = 0 THEN <<>>
    ELSE IF Len(s) = 1 THEN (IF s[1] \in Dangerous THEN <<>> ELSE s)
    ELSE LET h == Len(s) \div 2
         IN  RemoveDangerous(SubSeq(s, 1, h))
             \o RemoveDangerous(SubSeq(s, h + 1, Len(s)))

Marker == <<".", ".", ".">>

\* Mutant of Truncate: >= for >.
TruncateAtLimit(s) ==
    IF Len(s) >= MAX_TEXT_LENGTH
    THEN SubSeq(s, 1, MAX_TEXT_LENGTH) \o Marker
    ELSE s

\* if len(text) > 4000: text = text[:4000] + "..."
Truncate(s) ==
    IF Len(s) > MAX_TEXT_LENGTH
    THEN SubSeq(s, 1, MAX_TEXT_LENGTH) \o Marker
    ELSE s

\* Mutant of sanitize_input: the length limit is applied to the input, before
\* the escaping.
sanitize_input_cut_first(t) ==
    IF Len(t) = 0 THEN <<>>
    ELSE Strip(RemoveDangerous(Escape(Truncate(t))))

\* Mutant of sanitize_input: the escaping and the character removal left out.
sanitize_input_unescaped(t) ==
    IF Len(t) = 0 THEN <<>>
    ELSE Strip(Truncate(t))

sanitize_input(t) ==
    IF Len(t) = 0 THEN <<>>
    ELSE Strip(Truncate(RemoveDangerous(Escape(t))))

(***************************************************************************)
(* Inputs of sanitize_input: a short prefix (markup, quote, letter, blank)  *)
(* followed by a run of one character, with run lengths around the points  *)
(* where the escaped text (1, 4, 5 or 6 characters per input character)    *)
(* crosses the length limit.                                               *)
(***************************************************************************)
MaxPrefix == 1

SanChars == {"<", ">", "\"", "'", "&", "a", " ", VT}
PrefixChars == {"<", "'", "a", " "}
EntityWidths == {1, 4, 5, 6}
PadLengths ==
    {0, 1} \cup {(MAX_TEXT_LENGTH \div w) + d : w \in EntityWidths, d \in {-1, 0, 1}}

Pad(ch, k) == [i \in 1..k |-> ch]

SanInputs ==
    {pre \o Pad(ch, k) :
        pre \in UNION {[1..n -> PrefixChars] : n \in 0..MaxPrefix},
        ch \in SanChars, k \in PadLengths}

SanitizeCall ==
    /\ san_pc = "input"
    /\ sanitized' = sanitize_input(text)
    /\ san_pc' = "done"
    /\ UNCHANGED text
    /\ UNCHANGED dispatchVars

InitSanitize ==
    /\ InitDispatch({})
    /\ Config.OPENAI_API_KEY = Some("sk-test")
    /\ Config.MAX_MESSAGE_LENGTH = MaxLimit
    /\ Config.MAX_RETRIES = MaxRetries
    /\ text \in SanInputs
    /\ sanitized = <<>>
    /\ san_pc = "input"

NextSanitize == SanitizeCall

SpecSanitize == InitSanitize /\ [][NextSanitize]_vars

(***************************************************************************)
(* Vocabulary of the properties.                                           *)
(***************************************************************************)
Returned(c) == pc[c] = "done" /\ result[c] # None
Res(c) == result[c][1]
IsBlank(m) == \A i \in 1..Len(m) : m[i] \in Whitespace
Raises(o, cls) == o.raised /\ o.value.cls = cls
ValidCompletion(o) ==
    /\ ~o.raised
    /\ Len(o.value.choices) > 0
    /\ o.value.choices[1].message # None
    /\ o.value.choices[1].message[1].content \notin {None, Some("")}
TooLongError ==
    "Message too long. Maximum " \o ToString(Config.MAX_MESSAGE_LENGTH)
    \o " characters allowed."
EndsWithMarker(s) ==
    Len(s) >= Len(Marker) /\ SubSeq(s, Len(s) - Len(Marker) + 1, Len(s)) = Marker

(* C1: once the first request has raised an authentication failure,
   send_message has returned the invalid-key failure after exactly one
   request and without any sleep, whatever MAX_RETRIES (>= 1) is. *)
C1_AuthFailureReturnsAtOnce ==
    \A c \in Callers :
        (Len(replies[c]) >= 1 /\ Raises(replies[c][1], "openai.AuthenticationError"))
        => /\ Returned(c)
           /\ calls[c] = 1
           /\ sleeps[c] = <<>>
           /\ Res(c).success = FALSE
           /\ Res(c).error = Some("Invalid API key. Please check your configuration.")

(* C2: a send_message that has returned after every request raised a
   rate-limit error made exactly MAX_RETRIES requests, slept 2 seconds
   between consecutive requests, and reports the rate-limit message. *)
C2_RateLimitEveryAttempt ==
    \A c \in Callers :
        (/\ Returned(c)
         /\ Len(replies[c]) >= 1
         /\ \A i \in 1..Len(replies[c]) : Raises(replies[c][i], "openai.RateLimitError"))
        => /\ calls[c] = Config.MAX_RETRIES
           /\ sleeps[c] = [i \in 1..(Config.MAX_RETRIES - 1) |-> 2]
           /\ Res(c).success = FALSE
           /\ Res(c).error = Some("Rate limit exceeded. Please try again later.")

(* C3 as claimed: no exception ever leaves send_message, and whenever it
   has ended it has returned a dict with a boolean success field. *)
C3_AlwaysStructuredResult ==
    \A c \in Callers :
        /\ pc[c] # "raised"
        /\ pc[c] = "done" =>
              /\ result[c] # None
              /\ "success" \in DOMAIN Res(c)
              /\ Res(c).success \in BOOLEAN

\* The exception is one that `except Exception` (line 108) catches.
CaughtByCatchAll(o) == o.raised /\ IsSubclass(o.value.cls, "Exception")
SystemExiting(o) == o.raised /\ ~IsSubclass(o.value.cls, "Exception")

(* C3, amended: with MAX_RETRIES >= 1, a send_message that has ended has
   returned a dict with a boolean success field, whatever the responses
   and whatever the exceptions derived from Exception its requests met; an
   exception leaves send_message only when it is not derived from Exception
   (KeyboardInterrupt here), it is then the last outcome of the call, and
   every such exception does leave it, with no dict and no sleep after
   it. *)
C3_StructuredResultUnlessSystemExiting ==
    \A c \in Callers :
        Config.MAX_RETRIES >= 1 =>
            /\ pc[c] = "done" =>
                  /\ result[c] # None
                  /\ "success" \in DOMAIN Res(c)
                  /\ Res(c).success \in BOOLEAN
                  /\ \A i \in 1..Len(replies[c]) : ~SystemExiting(replies[c][i])
            /\ pc[c] = "raised" =>
                  /\ result[c] = None
                  /\ Len(replies[c]) >= 1
                  /\ SystemExiting(replies[c][Len(replies[c])])
                  /\ Len(sleeps[c]) = Len(replies[c]) - 1
            /\ \A i \in 1..Len(replies[c]) :
                  SystemExiting(replies[c][i]) =>
                      (i = Len(replies[c]) /\ pc[c] = "raised")

C3_Witness ==
    /\ Returned(1)
    /\ Config.MAX_RETRIES = 2
    /\ Len(replies[1]) = 2
    /\ Raises(replies[1][1], "openai.APIConnectionError")
    /\ Raises(replies[1][2], "ValueError")
    /\ Res(1).success = FALSE
    /\ Res(1).error = Some("Unexpected error: bad value")

\* A state in which an interrupt has left send_message on its second attempt.
C3_InterruptLeaves ==
    /\ pc[1] = "raised"
    /\ Config.MAX_RETRIES = 2
    /\ Len(replies[1]) = 2
    /\ Raises(replies[1][1], "ValueError")
    /\ Raises(replies[1][2], "KeyboardInterrupt")
    /\ sleeps[1] = <<1>>
    /\ result[1] = None

(* C4: in every returned dict exactly one of response/error is populated:
   success means a non-empty response and no error, failure means no
   response and a non-empty error. *)
C4_ExactlyOneOfResponseError ==
    \A c \in Callers :
        Returned(c) =>
            IF Res(c).success
            THEN Res(c).response \notin {None, Some("")} /\ Res(c).error = None
            ELSE Res(c).response = None /\ Res(c).error \notin {None, Some("")}

(* C5: a message that is empty or all whitespace, of any length, is
   answered with "Empty message provided", response_time 0, no request and
   no sleep. *)
C5_BlankMessageRejected ==
    \A c \in Callers :
        (pc[c] # "idle" /\ IsBlank(message[c]))
        => /\ pc[c] = "done"
           /\ result[c] = Some(Failure("Empty message provided", 0))
           /\ calls[c] = 0
           /\ sleeps[c] = <<>>

C5_Witness ==
    /\ pc[1] = "done"
    /\ Len(message[1]) > Config.MAX_MESSAGE_LENGTH
    /\ IsBlank(message[1])
    /\ message[1][1] = VT
    /\ Res(1).error = Some("Empty message provided")

(* C6: a non-blank message longer than MAX_MESSAGE_LENGTH is answered with
   the failure citing the limit, response_time 0 and no request; a
   non-blank message of exactly MAX_MESSAGE_LENGTH characters is not
   rejected: it reaches the loop and ends only after a request. *)
C6_OverLengthRejected ==
    \A c \in Callers :
        (pc[c] # "idle" /\ ~IsBlank(message[c])) =>
            /\ Len(message[c]) > Config.MAX_MESSAGE_LENGTH =>
                  /\ pc[c] = "done"
                  /\ result[c] = Some(Failure(TooLongError, 0))
                  /\ calls[c] = 0
            /\ Len(message[c]) = Config.MAX_MESSAGE_LENGTH =>
                  /\ pc[c] \in {"loop", "waiting", "sleeping", "done", "raised"}
                  /\ pc[c] \in {"done", "raised"} => calls[c] >= 1
                  /\ result[c] # Some(Failure(TooLongError, 0))

C6_Witness ==
    /\ pc[1] = "done"
    /\ ~IsBlank(message[1])
    /\ Len(message[1]) = Config.MAX_MESSAGE_LENGTH + 1
    /\ Res(1).response_time = 0
    /\ calls[1] = 0

(* C7: when the first request returns a completion with non-empty content,
   send_message has returned success with exactly that content, model_used
   equal to the model argument, one request and no sleep. *)
C7_FirstAttemptSuccess ==
    \A c \in Callers :
        (Len(replies[c]) >= 1 /\ ValidCompletion(replies[c][1]))
        => /\ Returned(c)
           /\ Res(c).success = TRUE
           /\ Res(c).response = replies[c][1].value.choices[1].message[1].content
           /\ Res(c).model_used = model[c]
           /\ calls[c] = 1
           /\ sleeps[c] = <<>>

C7_Witness ==
    /\ Returned(1)
    /\ model[1] = "gpt-4"
    /\ Len(replies[1]) = 1
    /\ ValidCompletion(replies[1][1])
    /\ Res(1).response = Some("Hello")

(* C8: LLMService() raises exactly when the configuration is invalid, and
   then no client is bound; with a valid configuration it succeeds and
   binds a client made from the credential. *)
C8_ConstructionValidatesConfig ==
    init_state # "new" =>
        /\ init_state = "raised" <=> ~validate_config
        /\ init_state = "raised" => (client = None /\ init_error # None)
        /\ init_state = "ready" =>
              (client = Some(Config.OPENAI_API_KEY) /\ init_error = None)

C8_Witness ==
    /\ init_state = "raised"
    /\ Config.OPENAI_API_KEY = Some("sk-test")
    /\ Config.MAX_RETRIES = 0
    /\ client = None

(* C9: the text returned by sanitize_input contains none of < > " '. *)
C9_NoDangerousChars ==
    san_pc = "done" =>
        \A i \in 1..Len(sanitized) : sanitized[i] \notin {"<", ">", "\"", "'"}

C9_Witness ==
    /\ san_pc = "done"
    /\ Len(text) >= 2
    /\ text[1] = "<"
    /\ text[2] = "'"
    /\ Len(sanitized) > Len(text)

(* C10: the text returned by sanitize_input has at most 4003 characters;
   when the escaped and cleaned text is longer than 4000 characters the
   result ends with "...", and otherwise the result is that text, trimmed,
   with nothing appended. *)
C10_LengthAndMarker ==
    san_pc = "done" =>
        /\ Len(sanitized) <= MAX_TEXT_LENGTH + 3
        /\ LET cleaned == RemoveDangerous(Escape(text))
           IN  IF Len(cleaned) > MAX_TEXT_LENGTH
               THEN EndsWithMarker(sanitized)
               ELSE sanitized = Strip(cleaned)

C10_Witness ==
    /\ san_pc = "done"
    /\ Len(text) = MAX_TEXT_LENGTH + 1
    /\ text[1] = "a"
    /\ Len(sanitized) = MAX_TEXT_LENGTH + 3
    /\ EndsWithMarker(sanitized)

(***************************************************************************)
(* The error taxonomy of the service: an attempt that raised anything but  *)
(* an authentication failure is eligible for retry; an authentication      *)
(* failure and a returned response are terminal.                           *)
(***************************************************************************)
Retryable(o) == o.raised /\ ~IsSubclass(o.value.cls, "openai.AuthenticationError")
EmptyResponse(o) ==
    /\ ~o.raised
    /\ (Len(o.value.choices) = 0 \/ o.value.choices[1].message = None)
InFlight(c) == pc[c] \in {"loop", "waiting", "sleeping"}

(* C11: a send_message never makes more than MAX_RETRIES requests, and a
   request is in flight only when every earlier request of the call failed
   with a retryable error and the backoff sleep after it is over. *)
C11_BoundedSequentialAttempts ==
    \A c \in Callers :
        /\ calls[c] <= Max(Config.MAX_RETRIES, 0)
        /\ pc[c] = "waiting" =>
              /\ calls[c] = Len(replies[c]) + 1
              /\ Len(sleeps[c]) = Len(replies[c])
              /\ \A i \in 1..Len(replies[c]) : Retryable(replies[c][i])
              /\ calls[c] > 1 => clock >= wake[c]

(* C11, the part that holds whatever the class of the error: the bound on
   the requests, one request at a time after a failed attempt and its
   sleep, and the loop variable never passing MAX_RETRIES. *)
C11_BoundedAttempts ==
    \A c \in Callers :
        /\ calls[c] <= Max(Config.MAX_RETRIES, 0)
        /\ attempt[c] < Max(Config.MAX_RETRIES, 1)
        /\ pc[c] = "waiting" =>
              /\ calls[c] = Len(replies[c]) + 1
              /\ calls[c] = attempt[c] + 1
              /\ Len(sleeps[c]) = Len(replies[c])
              /\ \A i \in 1..Len(replies[c]) : replies[c][i].raised
              /\ calls[c] > 1 => clock >= wake[c]

(* C11, termination: under a scheduler that lets the thread run, a request
   that returns or raises (its timeout is enforced by the client) and a
   sleep that ends, every send_message that entered the loop ends. *)
Fairness ==
    \A c \in Callers :
        /\ WF_vars(Attempt(c))
        /\ WF_vars(\E o \in ApiOutcomes : \E lat \in Latencies : Reply(c, o, lat))
        /\ WF_vars(Wake(c))

SpecFair == Init /\ [][Next]_vars /\ Fairness

C11_Terminates ==
    \A c \in Callers : InFlight(c) ~> (pc[c] \in {"done", "raised"})

(* C12: when attempt k returns a completion with content after k-1
   attempts that failed with retryable errors, send_message has returned
   success with that content, and the requests made are exactly those k:
   none follows the success. *)
C12_SuccessEndsTheLoop ==
    \A c \in Callers :
        LET k == Len(replies[c])
        IN  (/\ k >= 1
             /\ ValidCompletion(replies[c][k])
             /\ \A i \in 1..(k - 1) : Retryable(replies[c][i]))
            => /\ Returned(c)
               /\ Res(c).success = TRUE
               /\ Res(c).response = replies[c][k].value.choices[1].message[1].content
               /\ calls[c] = k
               /\ k <= Config.MAX_RETRIES

C12_Witness ==
    /\ Returned(1)
    /\ calls[1] = 3
    /\ Len(replies[1]) = 3
    /\ Raises(replies[1][1], "openai.APIConnectionError")
    /\ Raises(replies[1][2], "ValueError")
    /\ ValidCompletion(replies[1][3])
    /\ Res(1).response = Some("Hi there")

(* C13: an attempt whose response has no choices, or a first choice
   without a message, ends send_message at once with "Empty response from
   API": no further request and no sleep after it, whatever attempts
   remain. *)
C13_EmptyResponseIsTerminal ==
    \A c \in Callers :
        LET k == Len(replies[c])
        IN  (k >= 1 /\ EmptyResponse(replies[c][k]))
            => /\ Returned(c)
               /\ Res(c).success = FALSE
               /\ Res(c).error = Some("Empty response from API")
               /\ calls[c] = k
               /\ Len(sleeps[c]) = k - 1

C13_Witness ==
    /\ Returned(1)
    /\ Config.MAX_RETRIES = 3
    /\ Len(replies[1]) = 1
    /\ EmptyResponse(replies[1][1])
    /\ replies[1][1].value.choices # <<>>
    /\ calls[1] = 1
    /\ sleeps[1] = <<>>

(***************************************************************************)
(* A generic provider error: an openai.APIError that is neither a          *)
(* rate-limit error nor an authentication failure.  An unexpected error:   *)
(* an exception outside the openai.APIError hierarchy.                     *)
(***************************************************************************)
GenericApiError(o) ==
    /\ o.raised
    /\ IsSubclass(o.value.cls, "openai.APIError")
    /\ ~IsSubclass(o.value.cls, "openai.RateLimitError")
    /\ ~IsSubclass(o.value.cls, "openai.AuthenticationError")
UnexpectedError(o) == o.raised /\ ~IsSubclass(o.value.cls, "openai.APIError")

RECURSIVE SumSeq(_)
SumSeq(s) == IF Len(s) = 0 THEN 0 ELSE s[1] + SumSeq(Tail(s))

(* C14: a generic API error on attempt i: on the last allowed attempt
   send_message has returned "API Error: <cause>", with MAX_RETRIES requests
   made; on an earlier attempt it has slept exactly 1 second and has not
   returned before the next request is answered. *)
C14_GenericApiError ==
    \A c \in Callers :
        \A i \in 1..Len(replies[c]) :
            GenericApiError(replies[c][i]) =>
                IF i = Config.MAX_RETRIES
                THEN /\ Returned(c)
                     /\ Res(c).success = FALSE
                     /\ Res(c).error = Some("API Error: " \o replies[c][i].value.text)
                     /\ calls[c] = Config.MAX_RETRIES
                     /\ Len(sleeps[c]) = i - 1
                ELSE /\ Len(sleeps[c]) >= i
                     /\ sleeps[c][i] = 1
                     /\ Len(replies[c]) = i => pc[c] \in {"sleeping", "loop", "waiting"}

C14_Witness ==
    /\ Returned(1)
    /\ Config.MAX_RETRIES = 3
    /\ Len(replies[1]) = 3
    /\ \A i \in 1..3 : GenericApiError(replies[1][i])
    /\ sleeps[1] = <<1, 1>>
    /\ calls[1] = 3

(* C15 as claimed: an exception outside the provider's classes on attempt
   i: on the last allowed attempt send_message has returned "Unexpected
   error: <cause>"; on an earlier attempt it has slept exactly 1 second and
   goes on to the next attempt. *)
C15_UnexpectedError ==
    \A c \in Callers :
        \A i \in 1..Len(replies[c]) :
            UnexpectedError(replies[c][i]) =>
                IF i = Config.MAX_RETRIES
                THEN /\ Returned(c)
                     /\ Res(c).success = FALSE
                     /\ Res(c).error = Some("Unexpected error: " \o replies[c][i].value.text)
                     /\ Len(sleeps[c]) = i - 1
                ELSE /\ Len(sleeps[c]) >= i
                     /\ sleeps[c][i] = 1
                     /\ Len(replies[c]) = i => pc[c] \in {"sleeping", "loop", "waiting"}

\* An unexpected error that the last except clause (line 108) handles.
UnexpectedException(o) == UnexpectedError(o) /\ CaughtByCatchAll(o)

(* C15, amended: an exception derived from Exception and outside the
   provider's classes on attempt i: on the last allowed attempt
   send_message has returned "Unexpected error: <cause>"; on an earlier
   attempt it has slept exactly 1 second and goes on to the next attempt.
   An exception that is not derived from Exception is not handled: on
   whatever attempt it comes, send_message neither sleeps nor returns
   after it. *)
C15_UnexpectedException ==
    \A c \in Callers :
        \A i \in 1..Len(replies[c]) :
            /\ UnexpectedException(replies[c][i]) =>
                  IF i = Config.MAX_RETRIES
                  THEN /\ Returned(c)
                       /\ Res(c).success = FALSE
                       /\ Res(c).error =
                             Some("Unexpected error: " \o replies[c][i].value.text)
                       /\ Len(sleeps[c]) = i - 1
                  ELSE /\ Len(sleeps[c]) >= i
                       /\ sleeps[c][i] = 1
                       /\ Len(replies[c]) = i =>
                             pc[c] \in {"sleeping", "loop", "waiting"}
            /\ (UnexpectedError(replies[c][i]) /\ SystemExiting(replies[c][i])) =>
                  /\ Len(sleeps[c]) = i - 1
                  /\ ~Returned(c)
                  /\ calls[c] = i

C15_Witness ==
    /\ Returned(1)
    /\ Config.MAX_RETRIES = 2
    /\ Len(replies[1]) = 2
    /\ UnexpectedException(replies[1][1])
    /\ UnexpectedException(replies[1][2])
    /\ sleeps[1] = <<1>>
    /\ Res(1).error = Some("Unexpected error: bad value")

(* C16: start_time is taken once, at the call, and never again; a dict
   returned from inside the loop carries response_time = the clock at the
   return minus that start, which is non-negative and at least the sum of
   the backoff sleeps of the call. *)
C16_ElapsedFromSingleStart ==
    [][\A c \in Callers :
          /\ pc[c] # "idle" => start_time'[c] = start_time[c]
          /\ (~Returned(c) /\ Returned(c)' /\ calls'[c] >= 1) =>
                /\ Res(c)'.response_time = clock' - start_time[c]
                /\ Res(c)'.response_time >= 0
                /\ Res(c)'.response_time >= SumSeq(sleeps'[c])]_vars

C16_Witness ==
    /\ Returned(1)
    /\ start_time[1] = 1
    /\ sleeps[1] = <<1, 1>>
    /\ Len(replies[1]) = 3
    /\ Res(1).response_time = 4
    /\ clock = 5

(* C18: no sleep follows the last request: a sleep is started only when
   another attempt remains, there are never more than MAX_RETRIES - 1
   sleeps, and a send_message that has ended after n requests has slept
   exactly between them, n - 1 times. *)
C18_NoSleepAfterLastCall ==
    \A c \in Callers :
        /\ Len(sleeps[c]) <= calls[c]
        /\ Len(sleeps[c]) <= Max(Config.MAX_RETRIES - 1, 0)
        /\ pc[c] = "sleeping" => attempt[c] + 1 < Config.MAX_RETRIES
        /\ (pc[c] = "done" /\ calls[c] >= 1) =>
              /\ Len(sleeps[c]) = calls[c] - 1
              /\ Len(replies[c]) = calls[c]

C18_Witness ==
    /\ Returned(1)
    /\ Config.MAX_RETRIES = 3
    /\ calls[1] = 3
    /\ Len(sleeps[1]) = 2
    /\ Raises(replies[1][3], "openai.RateLimitError")

(***************************************************************************)
(* Two threads calling send_message on one LLMService instance, under one  *)
(* valid configuration.  Each sends a valid, a blank or an over-long       *)
(* message, each names its own model; the steps of the two calls           *)
(* interleave freely.                                                      *)
(***************************************************************************)
ConcConfig ==
    [OPENAI_API_KEY |-> Some("sk-test"), MAX_MESSAGE_LENGTH |-> 1,
     MAX_RETRIES |-> 2, API_TIMEOUT |-> 30]

ConcMessages == {<<"a">>, <<" ">>, <<"a", "a">>}
ConcModel(c) == IF c = 1 THEN "gpt-3.5-turbo" ELSE "gpt-4"

InitConc ==
    /\ InitDispatch(Callers)
    /\ Config = ConcConfig
    /\ SanitizeIdle

NextConc ==
    \/ Construct
    \/ \E c \in active : \E m \in ConcMessages : Call(c, m, ConcModel(c))
    \/ \E c \in active : Attempt(c)
    \/ \E c \in active : \E o \in ApiOutcomes : \E lat \in Latencies : Reply(c, o, lat)
    \/ \E c \in active : Wake(c)

SpecConc == InitConc /\ [][NextConc]_vars

\* What a call returns, makes and sleeps as a function of its own message,
\* model and replies alone (response_time, a reading of the shared clock,
\* set to 0).
NoTime(d) == [d EXCEPT !.response_time = 0]
OwnSleeps(c) ==
    [i \in 1..(Len(replies[c]) - 1) |->
        HandleException(replies[c][i].value, i - 1, 0).sleep]
OwnResult(c) ==
    IF CheckMessage(message[c]) # None THEN CheckMessage(message[c])
    ELSE IF Len(replies[c]) = 0 THEN None
    ELSE LET k == Len(replies[c])
             o == replies[c][k]
         IN  IF ~o.raised THEN Some(HandleResponse(o.value, model[c], 0))
             ELSE HandleException(o.value, k - 1, 0).returns

(* C17: under every interleaving of two calls on one instance, what each
   call returns, the requests it makes and the sleeps it takes are those
   its own message, model and replies determine, and the client handle and
   the configuration stay as they were. *)
C17_CallsDoNotInterfere ==
    /\ Config = ConcConfig
    /\ init_state = "ready" => client = Some(Config.OPENAI_API_KEY)
    /\ \A c \in Callers :
          pc[c] = "done" =>
              /\ result[c] # None
              /\ OwnResult(c) # None
              /\ NoTime(Res(c)) = NoTime(OwnResult(c)[1])
              /\ calls[c] = Len(replies[c])
              /\ sleeps[c] = OwnSleeps(c)

C17_Witness ==
    /\ Returned(1) /\ Returned(2)
    /\ start_time[1] = 1 /\ start_time[2] = 1
    /\ calls[1] = 2 /\ calls[2] = 2
    /\ sleeps[1] = <<1>> /\ sleeps[2] = <<1>>
    /\ ValidCompletion(replies[1][2])
    /\ Raises(replies[2][2], "ValueError")
    /\ model[1] # model[2]

(***************************************************************************)
(* send_message reads Config.MAX_RETRIES when it is called (line 48) and   *)
(* checks nothing about it.  This specification starts from an instance    *)
(* whose Config carries any retry count, zero and negative included, as    *)
(* when the attribute is assigned after construction or is not covered by  *)
(* the validation.                                                         *)
(***************************************************************************)
ConfigsUnvalidated ==
    [OPENAI_API_KEY : {Some("sk-test")},
     MAX_MESSAGE_LENGTH : 1..MaxLimit,
     MAX_RETRIES : -1..MaxRetries,
     API_TIMEOUT : {30}]

InitUnvalidated ==
    /\ Config \in ConfigsUnvalidated
    /\ init_state = "ready"
    /\ init_error = None
    /\ client = Some(Config.OPENAI_API_KEY)
    /\ clock = 1
    /\ active = {1}
    /\ pc = [c \in Callers |-> "idle"]
    /\ message = [c \in Callers |-> <<>>]
    /\ model = [c \in Callers |-> "gpt-3.5-turbo"]
    /\ attempt = [c \in Callers |-> 0]
    /\ start_time = [c \in Callers |-> 0]
    /\ calls = [c \in Callers |-> 0]
    /\ sleeps = [c \in Callers |-> <<>>]
    /\ wake = [c \in Callers |-> 0]
    /\ replies = [c \in Callers |-> <<>>]
    /\ result = [c \in Callers |-> None]
    /\ SanitizeIdle

NextCalls ==
    \/ \E c \in active : \E m \in Messages : \E mdl \in Models : Call(c, m, mdl)
    \/ \E c \in active : Attempt(c)
    \/ \E c \in active : \E o \in ApiOutcomes : \E lat \in Latencies : Reply(c, o, lat)
    \/ \E c \in active : Wake(c)

SpecUnvalidated == InitUnvalidated /\ [][NextCalls]_vars

(* C19: with MAX_RETRIES zero or negative, a send_message whose message
   passes the checks makes no request, does not sleep, and ends without
   returning a dict: its return value is None. *)
C19_NoAttemptsReturnsNone ==
    \A c \in Callers :
        (/\ pc[c] # "idle"
         /\ CheckMessage(message[c]) = None
         /\ Config.MAX_RETRIES <= 0)
        => /\ pc[c] \in {"loop", "done"}
           /\ calls[c] = 0
           /\ sleeps[c] = <<>>
           /\ replies[c] = <<>>
           /\ result[c] = None

C19_Witness ==
    /\ pc[1] = "done"
    /\ Config.MAX_RETRIES = 0
    /\ CheckMessage(message[1]) = None
    /\ result[1] = None
    /\ calls[1] = 0

Min(a, b) == IF a <= b THEN a ELSE b

(* C20: truncation is decided on the escaped text: whenever the escaped
   text is longer than 4000 characters, also for an input of at most 4000,
   the result ends with the marker; the cut is at character 4000 of the
   escaped text wherever that falls, inside an entity included; and the
   trimming comes last, so leading whitespace shortens the result below
   4000 characters plus marker. *)
C20_TruncationOnEscapedText ==
    (san_pc = "done" /\ Len(Escape(text)) > MAX_TEXT_LENGTH) =>
        LET lw == Min(LeadingWs(text), MAX_TEXT_LENGTH)
        IN  /\ EndsWithMarker(sanitized)
            /\ Len(sanitized) = MAX_TEXT_LENGTH - lw + Len(Marker)
            /\ SubSeq(sanitized, 1, Len(sanitized) - Len(Marker))
                 = SubSeq(Escape(text), lw + 1, MAX_TEXT_LENGTH)

C20_Witness ==
    /\ san_pc = "done"
    /\ Len(text) >= 2
    /\ Len(text) <= MAX_TEXT_LENGTH
    /\ text[1] = " "
    /\ text[2] = "&"
    /\ EndsWithMarker(sanitized)
    /\ Len(sanitized) = MAX_TEXT_LENGTH + 2
    /\ sanitized[Len(sanitized) - 3] = "p"

====
